---- MODULE Spec2Model ----
(***************************************************************************)
(* A model of unearth's link evaluator (src/unearth/evaluator.py) and of   *)
(* its session (src/unearth/session.py): Evaluator.evaluate_link and the   *)
(* checks it applies, TargetPython.supported_tags, LocalFSAdapter.send,    *)
(* PyPISession.add_trusted_host and PyPISession.is_secure_origin.          *)
(*                                                                         *)
(* Python strings are sequences of one-character strings, so that the      *)
(* scanning, splitting and canonicalisation the code does on them is       *)
(* computed and not assumed.  Python's None is the value None below.       *)
(***************************************************************************)
EXTENDS Integers, Sequences, FiniteSets, TLC

VARIABLES
    evaluator,            \* the Evaluator's fields (fixed at construction)
    valid_tags,           \* TargetPython._valid_tags
    link,                 \* the argument of the last evaluate_link call
    outcome,              \* what that call did: Package, None or an exception
    tp_pc,                \* per caller: its position inside supported_tags()
    tp_ret,               \* per caller: what supported_tags() last returned
    tp_local,             \* per caller: get_supported's result not yet stored
    get_supported_calls,  \* how often get_supported has been called
    trusted_host_ports,   \* PyPISession._trusted_host_ports
    adapters,             \* the session's mounted adapters: prefix -> adapter
    origin,               \* the last is_secure_origin call and its result
    fs,                   \* the local file system: path -> what is there
    response              \* the last LocalFSAdapter.send call and its result

vars == <<evaluator, valid_tags, link, outcome, tp_pc, tp_ret, tp_local,
          get_supported_calls, trusted_host_ports, adapters, origin, fs,
          response>>

evalVars == <<evaluator, valid_tags, link, outcome>>
tagVars == <<tp_pc, tp_ret, tp_local, get_supported_calls>>
sessionVars == <<trusted_host_ports, adapters, origin>>
fsVars == <<fs, response>>

\* Python's None.  No string of the model is spelled this way: strings are
\* sequences of one-character strings.
None == <<"None">>

(***************************************************************************)
(* Strings                                                                 *)
(***************************************************************************)
Digits == {"0", "1", "2", "3", "4", "5", "6", "7", "8", "9"}

DigitVal(c) ==
    CASE c = "0" -> 0 [] c = "1" -> 1 [] c = "2" -> 2 [] c = "3" -> 3
      [] c = "4" -> 4 [] c = "5" -> 5 [] c = "6" -> 6 [] c = "7" -> 7
      [] c = "8" -> 8 [] c = "9" -> 9

\* str.lower() on the letters the inputs use.
Lower(c) ==
    CASE c = "F" -> "f" [] c = "O" -> "o" [] c = "B" -> "b" [] OTHER -> c

RECURSIVE LowerStr(_)
LowerStr(s) ==
    IF s = <<>> THEN <<>> ELSE <<Lower(Head(s))>> \o LowerStr(Tail(s))

\* s.endswith(suffix)
EndsWith(s, suffix) ==
    /\ Len(s) >= Len(suffix)
    /\ SubSeq(s, Len(s) - Len(suffix) + 1, Len(s)) = suffix

\* s.count(c)
Count(s, c) == Cardinality({i \in 1..Len(s) : s[i] = c})

\* the index of the first c in s, 0 when there is none
RECURSIVE FindFrom(_, _, _)
FindFrom(s, c, i) ==
    IF i > Len(s) THEN 0 ELSE IF s[i] = c THEN i ELSE FindFrom(s, c, i + 1)

\* s.split(c, maxsplit): at most maxsplit cuts, left to right
RECURSIVE Split(_, _, _)
Split(s, c, maxsplit) ==
    LET i == FindFrom(s, c, 1) IN
    IF maxsplit = 0 \/ i = 0 THEN <<s>>
    ELSE <<SubSeq(s, 1, i - 1)>> \o Split(SubSeq(s, i + 1, Len(s)), c, maxsplit - 1)

\* s.split(c)
SplitAll(s, c) == Split(s, c, Len(s))

\* int(s) for a non-empty string of digits
RECURSIVE ToInt(_)
ToInt(s) ==
    IF s = <<>> THEN 0 ELSE 10 * ToInt(SubSeq(s, 1, Len(s) - 1)) + DigitVal(s[Len(s)])

IsNumber(s) == s # <<>> /\ \A i \in 1..Len(s) : s[i] \in Digits

\* packaging.utils.canonicalize_name: re.sub(r"[-_.]+", "-", name).lower()
RECURSIVE canonicalize_name(_)
canonicalize_name(name) ==
    IF name = <<>> THEN <<>>
    ELSE LET rest == canonicalize_name(Tail(name)) IN
         IF Head(name) \in {"-", "_", "."}
         THEN IF rest # <<>> /\ Head(rest) = "-" THEN rest ELSE <<"-">> \o rest
         ELSE <<Lower(Head(name))>> \o rest

\* os.path.splitext(p)[0] for a file name (no directory part): cut at the last
\* dot, unless only dots precede it.
splitext_root(p) ==
    LET dots == {i \in 1..Len(p) : p[i] = "."}
        dotIndex == IF dots = {} THEN 0
                    ELSE CHOOSE i \in dots : \A j \in dots : j <= i
    IN  IF dotIndex > 0 /\ \E k \in 1..(dotIndex - 1) : p[k] # "."
        THEN SubSeq(p, 1, dotIndex - 1)
        ELSE p

\* str(n) for n >= 0
RECURSIVE FromInt(_)
FromInt(n) ==
    LET d == CHOOSE c \in Digits : DigitVal(c) = n % 10 IN
    IF n < 10 THEN <<d>> ELSE FromInt(n \div 10) \o <<d>>

\* sep.join(parts)
RECURSIVE Join(_, _)
Join(parts, sep) ==
    IF parts = <<>> THEN <<>>
    ELSE IF Len(parts) = 1 THEN parts[1]
    ELSE parts[1] \o sep \o Join(Tail(parts), sep)

\* x in a list
InList(x, list) == \E i \in 1..Len(list) : list[i] = x

(***************************************************************************)
(* packaging: versions, specifiers, wheel file names.  The grammar kept is *)
(* the release-only part of PEP 440, N(.N)*, and the comparison operators  *)
(* >=, <=, ==, !=, <, >; every input below is inside it or is rejected by  *)
(* the library as well.                                                    *)
(***************************************************************************)
\* Whether Version(text) parses.
ValidVersion(text) ==
    text # <<>> /\ \A i \in 1..Len(SplitAll(text, ".")) : IsNumber(SplitAll(text, ".")[i])

\* Version(text).release
Release(text) == [i \in 1..Len(SplitAll(text, ".")) |-> ToInt(SplitAll(text, ".")[i])]

\* str(Version(text)): each number without its leading zeros
VersionStr(text) == Join([i \in 1..Len(Release(text)) |-> FromInt(Release(text)[i])], <<".">>)

\* -1, 0, 1: the order of two releases, the shorter padded with zeros
RECURSIVE CmpRelease(_, _)
CmpRelease(a, b) ==
    IF a = <<>> /\ b = <<>> THEN 0
    ELSE LET x == IF a = <<>> THEN 0 ELSE Head(a)
             y == IF b = <<>> THEN 0 ELSE Head(b)
         IN  IF x < y THEN -1 ELSE IF x > y THEN 1
             ELSE CmpRelease(IF a = <<>> THEN a ELSE Tail(a),
                             IF b = <<>> THEN b ELSE Tail(b))

Operators2 == {<<">", "=">>, <<"<", "=">>, <<"=", "=">>, <<"!", "=">>}
Operators1 == {<<"<">>, <<">">>}

\* Specifier(text): the operator and the version text, or None
ParseSpecifier(text) ==
    IF Len(text) > 2 /\ SubSeq(text, 1, 2) \in Operators2
         /\ ValidVersion(SubSeq(text, 3, Len(text)))
    THEN <<SubSeq(text, 1, 2), SubSeq(text, 3, Len(text))>>
    ELSE IF Len(text) > 1 /\ SubSeq(text, 1, 1) \in Operators1
              /\ ValidVersion(SubSeq(text, 2, Len(text)))
    THEN <<SubSeq(text, 1, 1), SubSeq(text, 2, Len(text))>>
    ELSE None

\* The clauses of SpecifierSet(text): the non-empty parts between commas
Clauses(text) == SelectSeq(SplitAll(text, ","), LAMBDA c : c # <<>>)

\* Whether SpecifierSet(text) raises InvalidSpecifier
InvalidSpecifier(text) ==
    \E i \in 1..Len(Clauses(text)) : ParseSpecifier(Clauses(text)[i]) = None

\* Specifier.contains for one parsed clause
ClauseContains(clause, release) ==
    LET c == CmpRelease(release, Release(clause[2])) IN
    CASE clause[1] = <<">", "=">> -> c >= 0
      [] clause[1] = <<"<", "=">> -> c <= 0
      [] clause[1] = <<"=", "=">> -> c = 0
      [] clause[1] = <<"!", "=">> -> c # 0
      [] clause[1] = <<"<">> -> c < 0
      [] clause[1] = <<">">> -> c > 0

\* SpecifierSet(text).contains(version, True), for a text that parses
SpecifierSetContains(text, release) ==
    \A i \in 1..Len(Clauses(text)) :
        ClauseContains(ParseSpecifier(Clauses(text)[i]), release)

NameChars ==
    {"f", "o", "b", "a", "r", "F", "O", "B", "_", "."} \cup Digits

\* packaging.tags.parse_tag: the product of the dot-separated alternatives
parse_tag(tag) ==
    LET p == SplitAll(tag, "-") IN
    {<<LowerStr(i), LowerStr(a), LowerStr(pl)>> :
        i \in {SplitAll(p[1], ".")[k] : k \in 1..Len(SplitAll(p[1], "."))},
        a \in {SplitAll(p[2], ".")[k] : k \in 1..Len(SplitAll(p[2], "."))},
        pl \in {SplitAll(p[3], ".")[k] : k \in 1..Len(SplitAll(p[3], "."))}}

whl == <<".", "w", "h", "l">>

\* Whether packaging.utils.parse_wheel_filename raises InvalidWheelFilename
InvalidWheelFilename(filename) ==
    LET stem == SubSeq(filename, 1, Len(filename) - 4)
        dashes == Count(stem, "-")
        parts == Split(stem, "-", dashes - 2)
    IN  \/ ~EndsWith(filename, whl)
        \/ dashes \notin {4, 5}
        \/ \E i \in 1..(Len(parts[1]) - 1) : parts[1][i] = "_" /\ parts[1][i + 1] = "_"
        \/ \E i \in 1..Len(parts[1]) : parts[1][i] \notin NameChars
        \/ ~ValidVersion(parts[2])
        \/ dashes = 5 /\ (parts[3] = <<>> \/ parts[3][1] \notin Digits)

\* packaging.utils.parse_wheel_filename, for a well-formed name: the
\* canonicalized name, the version, the build tag, the tag set
parse_wheel_filename(filename) ==
    LET stem == SubSeq(filename, 1, Len(filename) - 4)
        dashes == Count(stem, "-")
        parts == Split(stem, "-", dashes - 2)
    IN  <<canonicalize_name(parts[1]), VersionStr(parts[2]),
          IF dashes = 5 THEN parts[3] ELSE <<>>,
          parse_tag(parts[Len(parts)])>>

(***************************************************************************)
(* unearth.evaluator                                                       *)
(***************************************************************************)
\* sys.version_info[:2] of the running interpreter
sys_version_info == <<3, 9>>

\* unearth.utils.strip_extras: the part before a trailing [extras]
strip_extras(path) ==
    LET i == FindFrom(path, "[", 1) IN
    IF i > 1 /\ path[Len(path)] = "]" THEN SubSeq(path, 1, i - 1) ELSE path

\* unearth.pep425tags.get_supported: the tags of the target, most specific
\* first (None for py_version: the running interpreter)
get_supported(py_version, platforms, impl, abis) ==
    LET v == IF py_version = None
             THEN FromInt(sys_version_info[1]) \o FromInt(sys_version_info[2])
             ELSE py_version
        cp == <<"c", "p">> \o v
        plat == <<"l", "i", "n", "u", "x">>
        none == <<"n", "o", "n", "e">>
        any == <<"a", "n", "y">>
    IN  << <<cp, cp, plat>>, <<cp, <<"a", "b", "i", "3">>, plat>>,
           <<cp, none, any>>, <<<<"p", "y">> \o v, none, any>>,
           <<<<"p", "y", v[1]>>, none, any>> >>

\* What TargetPython.supported_tags computes when nothing is cached
compute_supported_tags(target_python) ==
    LET py_version == IF target_python.py_ver = None THEN None
                      ELSE FromInt(target_python.py_ver[1]) \o FromInt(target_python.py_ver[2])
    IN  get_supported(py_version, target_python.platforms, target_python.impl,
                      target_python.abis)

\* TargetPython.supported_tags called by one caller at a time: the tags
\* returned and the cache afterwards
supported_tags(target_python, cache) ==
    IF cache = None THEN compute_supported_tags(target_python) ELSE cache

parse_version_from_egg_info_m(egg_info, canonical_name) ==
    LET RECURSIVE scan(_)
        scan(i) ==
            IF i > Len(egg_info) THEN None
            ELSE IF canonicalize_name(SubSeq(egg_info, 1, i - 1)) = canonical_name
                      /\ egg_info[i] = "-"
            THEN SubSeq(egg_info, i + 1, Len(egg_info))
            ELSE scan(i + 1)
    IN  scan(1)

\* parse_version_from_egg_info: the loop over enumerate(egg_info)
parse_version_from_egg_info(egg_info, canonical_name) ==
    LET RECURSIVE scan(_)
        scan(i) ==
            IF i > Len(egg_info) THEN None
            ELSE IF canonicalize_name(SubSeq(egg_info, 1, i - 1)) = canonical_name
                      /\ egg_info[i] \in {"-", "_"}
            THEN SubSeq(egg_info, i + 1, Len(egg_info))
            ELSE scan(i + 1)
    IN  scan(1)

\* FormatControl.is_allowed
is_allowed(format_control, lnk) ==
    IF format_control.only_binary THEN lnk.is_wheel
    ELSE IF format_control.no_binary THEN ~lnk.is_wheel
    ELSE TRUE

\* Evaluator._check_yanked
_check_yanked(self, lnk) ==
    ~(lnk.yank_reason # None /\ ~self.allow_yanked)

\* Evaluator._check_requires_python: whether SpecifierSet(...) raises
_check_requires_python_raises(self, lnk) ==
    /\ ~self.ignore_compatibility
    /\ lnk.requires_python # None /\ lnk.requires_python # <<>>
    /\ InvalidSpecifier(lnk.requires_python)

\* Evaluator._check_requires_python: what it returns when nothing is raised
_check_requires_python(self, lnk) ==
    IF ~self.ignore_compatibility
         /\ lnk.requires_python # None /\ lnk.requires_python # <<>>
    THEN LET py_ver == IF self.target_python.py_ver # None
                       THEN self.target_python.py_ver ELSE sys_version_info
         IN  SpecifierSetContains(lnk.requires_python, py_ver)
    ELSE TRUE

_check_hashes_m(self, lnk) ==
    IF DOMAIN self.hashes = {} \/ lnk.hash_name = None THEN TRUE
    ELSE \E name \in DOMAIN self.hashes : InList(lnk.hash, self.hashes[name])

\* Evaluator._check_hashes
_check_hashes(self, lnk) ==
    IF DOMAIN self.hashes = {} \/ lnk.hash_name = None \/ lnk.hash_name = <<>>
    THEN TRUE
    ELSE LET allowed_hashes == IF lnk.hash_name \in DOMAIN self.hashes
                               THEN self.hashes[lnk.hash_name] ELSE <<>>
         IN  InList(lnk.hash, allowed_hashes)

isdisjoint_m(tags, list) == list = <<>> \/ list[1] \notin tags

\* frozenset.isdisjoint(list): no element of the list is in the set
isdisjoint(tags, list) == \A i \in 1..Len(list) : list[i] \notin tags

\* The value evaluate_link's resolution step leaves: whether it passed, the
\* version, the message logged and TargetPython._valid_tags afterwards
Resolved(ok, version, log, cache) ==
    [ok |-> ok, version |-> version, log |-> log, valid_tags |-> cache]

\* evaluate_link, the wheel branch
evaluate_wheel(self, lnk, cache) ==
    IF InvalidWheelFilename(lnk.filename)
    THEN Resolved(FALSE, None, "InvalidWheelFilename", cache)
    ELSE LET wheel_info == parse_wheel_filename(lnk.filename) IN
         IF self._canonical_name # wheel_info[1]
         THEN Resolved(FALSE, None, "The package name doesn't match", cache)
         ELSE IF self.ignore_compatibility
         THEN Resolved(TRUE, wheel_info[2], "", cache)
         ELSE LET tags == supported_tags(self.target_python, cache) IN
              IF isdisjoint(wheel_info[4], tags)
              THEN Resolved(FALSE, None, "none of the wheel tags are compatible", tags)
              ELSE Resolved(TRUE, wheel_info[2], "", tags)

\* evaluate_link, the branch of the other links
evaluate_sdist(self, lnk, cache) ==
    LET egg_info == IF lnk.egg # None /\ lnk.egg # <<>>
                    THEN strip_extras(lnk.egg)
                    ELSE splitext_root(lnk.filename)
        version == parse_version_from_egg_info(egg_info, self._canonical_name)
    IN  IF version = None
        THEN Resolved(FALSE, None, "Missing version in the filename", cache)
        ELSE Resolved(TRUE, version, "", cache)

\* What a call of evaluate_link did: kind is "Package" (returned a Package),
\* "None" (returned None) or "raised"; steps are the checks it evaluated
Outcome(kind, version, log, steps, cache) ==
    [kind |-> kind, version |-> version, log |-> log, steps |-> steps,
     valid_tags |-> cache]

evaluate_link_m(self, lnk, cache) ==
    IF ~is_allowed(self.format_control, lnk)
    THEN Outcome("None", None, "format_control", <<"format_control">>, cache)
    ELSE IF ~_check_yanked(self, lnk)
    THEN Outcome("None", None, "is yanked", <<"format_control", "yanked">>, cache)
    ELSE IF _check_requires_python_raises(self, lnk)
    THEN Outcome("raised", None, "InvalidSpecifier",
                 <<"format_control", "yanked", "requires_python">>, cache)
    ELSE IF ~_check_requires_python(self, lnk)
    THEN Outcome("None", None, "requires-python",
                 <<"format_control", "yanked", "requires_python">>, cache)
    ELSE IF ~_check_hashes(self, lnk)
    THEN Outcome("None", None, "Hash mismatch",
                 <<"format_control", "yanked", "requires_python", "hashes">>, cache)
    ELSE LET r == IF lnk.is_wheel THEN evaluate_wheel(self, lnk, cache)
                  ELSE evaluate_sdist(self, lnk, cache)
         IN  IF ~r.ok
             THEN Outcome("None", None, r.log,
                          <<"format_control", "yanked", "requires_python", "hashes",
                            "resolve">>, r.valid_tags)
             ELSE Outcome("Package", r.version, "",
                          <<"format_control", "yanked", "requires_python", "hashes",
                            "resolve">>, r.valid_tags)

\* Evaluator.evaluate_link
evaluate_link(self, lnk, cache) ==
    IF ~is_allowed(self.format_control, lnk)
    THEN Outcome("None", None, "format_control", <<"format_control">>, cache)
    ELSE IF ~_check_yanked(self, lnk)
    THEN Outcome("None", None, "is yanked", <<"format_control", "yanked">>, cache)
    ELSE IF _check_requires_python_raises(self, lnk)
    THEN Outcome("raised", None, "InvalidSpecifier",
                 <<"format_control", "yanked", "requires_python">>, cache)
    ELSE IF ~_check_requires_python(self, lnk)
    THEN Outcome("None", None, "requires-python",
                 <<"format_control", "yanked", "requires_python">>, cache)
    ELSE LET r == IF lnk.is_wheel THEN evaluate_wheel(self, lnk, cache)
                  ELSE evaluate_sdist(self, lnk, cache)
         IN  IF ~r.ok
             THEN Outcome("None", None, r.log,
                          <<"format_control", "yanked", "requires_python", "resolve">>,
                          r.valid_tags)
             ELSE IF ~_check_hashes(self, lnk)
             THEN Outcome("None", None, "Hash mismatch",
                          <<"format_control", "yanked", "requires_python", "resolve",
                            "hashes">>, r.valid_tags)
             ELSE Outcome("Package", r.version, "",
                          <<"format_control", "yanked", "requires_python", "resolve",
                            "hashes">>, r.valid_tags)

(***************************************************************************)
(* ipaddress: addresses and networks, parsed from their text.  An address  *)
(* is <<version, groups>>, a network <<version, groups, prefix length>>;   *)
(* the groups are the four octets of IPv4 or the eight hextets of IPv6.    *)
(***************************************************************************)
HexDigits == Digits \cup {"a", "b", "c", "d", "e", "f"}

HexVal(c) ==
    CASE c \in Digits -> DigitVal(c)
      [] c = "a" -> 10 [] c = "b" -> 11 [] c = "c" -> 12
      [] c = "d" -> 13 [] c = "e" -> 14 [] c = "f" -> 15

RECURSIVE HexToInt(_)
HexToInt(s) ==
    IF s = <<>> THEN 0 ELSE 16 * HexToInt(SubSeq(s, 1, Len(s) - 1)) + HexVal(s[Len(s)])

RECURSIVE Pow2(_)
Pow2(n) == IF n = 0 THEN 1 ELSE 2 * Pow2(n - 1)

\* IPv4Address(text): four decimal octets, at most 255, without leading zeros
IsIPv4(text) ==
    LET o == SplitAll(text, ".") IN
    /\ Len(o) = 4
    /\ \A i \in 1..4 :
          /\ IsNumber(o[i]) /\ Len(o[i]) <= 3
          /\ (Len(o[i]) > 1 => o[i][1] # "0")
          /\ ToInt(o[i]) <= 255

IPv4Groups(text) == [i \in 1..4 |-> ToInt(SplitAll(text, ".")[i])]

\* IPv6Address(text): hextets between colons, one run of zeros written "::"
IPv6Shape(text) ==
    LET parts == SplitAll(text, ":")
        n == Len(parts)
        skips == {i \in 2..(n - 1) : parts[i] = <<>>}
        skip == CHOOSE i \in skips : TRUE
        hi == IF parts[1] = <<>> THEN skip - 2 ELSE skip - 1
        lo == IF parts[n] = <<>> THEN n - skip - 1 ELSE n - skip
    IN  IF skips = {} THEN [ok |-> n = 8 /\ parts[1] # <<>> /\ parts[n] # <<>>,
                            hi |-> 8, lo |-> 0]
        ELSE [ok |-> /\ Cardinality(skips) = 1
                     /\ (parts[1] = <<>> => skip = 2)
                     /\ (parts[n] = <<>> => skip = n - 1)
                     /\ 8 - (hi + lo) >= 1,
              hi |-> hi, lo |-> lo]

IsHextet(s) == s # <<>> /\ Len(s) <= 4 /\ \A i \in 1..Len(s) : s[i] \in HexDigits

IsIPv6(text) ==
    LET parts == SplitAll(text, ":")
        n == Len(parts)
    IN  /\ n >= 3 /\ n <= 9
        /\ IPv6Shape(text).ok
        /\ \A i \in 1..IPv6Shape(text).hi : IsHextet(parts[i])
        /\ \A i \in (n - IPv6Shape(text).lo + 1)..n : IsHextet(parts[i])

IPv6Groups(text) ==
    LET parts == SplitAll(text, ":")
        n == Len(parts)
        sh == IPv6Shape(text)
    IN  [i \in 1..8 |->
            IF i <= sh.hi THEN HexToInt(parts[i])
            ELSE IF i > 8 - sh.lo THEN HexToInt(parts[n - (8 - i)])
            ELSE 0]

\* Whether ipaddress.ip_address(text) returns (it raises ValueError otherwise)
IsIPAddress(text) == text # None /\ (IsIPv4(text) \/ IsIPv6(text))

ip_address(text) ==
    IF IsIPv4(text) THEN <<4, IPv4Groups(text)>> ELSE <<6, IPv6Groups(text)>>

\* The bits of one group that lie after the first prefix bits of the address
HostBits(groups, width, prefix, g) ==
    IF prefix >= g * width THEN 0
    ELSE IF prefix <= (g - 1) * width THEN groups[g]
    ELSE groups[g] % Pow2(g * width - prefix)

\* Whether ipaddress.ip_network(text) returns: an address, or address/prefix
\* with no host bit set
IsIPNetwork(text) ==
    LET p == SplitAll(text, "/")
        addr == p[1]
        bits == IF IsIPv4(addr) THEN 32 ELSE 128
        width == IF IsIPv4(addr) THEN 8 ELSE 16
        groups == ip_address(addr)[2]
    IN  /\ text # None
        /\ Len(p) <= 2
        /\ IsIPAddress(addr)
        /\ Len(p) = 2 =>
             /\ IsNumber(p[2]) /\ Len(p[2]) <= 3 /\ ToInt(p[2]) <= bits
             /\ \A g \in 1..Len(groups) : HostBits(groups, width, ToInt(p[2]), g) = 0

ip_network(text) ==
    LET p == SplitAll(text, "/")
        a == ip_address(p[1])
    IN  <<a[1], a[2], IF Len(p) = 2 THEN ToInt(p[2]) ELSE IF a[1] = 4 THEN 32 ELSE 128>>

\* addr in network: same version, and the same first prefix bits
InNetwork(addr, network) ==
    LET width == IF addr[1] = 4 THEN 8 ELSE 16 IN
    /\ addr[1] = network[1]
    /\ \A g \in 1..Len(addr[2]) :
          addr[2][g] - HostBits(addr[2], width, network[3], g)
            = network[2][g] - HostBits(network[2], width, network[3], g)

(***************************************************************************)
(* unearth.session                                                         *)
(***************************************************************************)
Star == <<"*">>
https == <<"h", "t", "t", "p", "s">>
http == <<"h", "t", "t", "p">>
wss == <<"w", "s", "s">>
file == <<"f", "i", "l", "e">>
localhost == <<"l", "o", "c", "a", "l", "h", "o", "s", "t">>

\* DEFAULT_SECURE_ORIGINS
DEFAULT_SECURE_ORIGINS ==
    << <<https, Star, Star>>,
       <<wss, Star, Star>>,
       <<Star, localhost, Star>>,
       <<Star, <<"1", "2", "7", ".", "0", ".", "0", ".", "0", "/", "8">>, Star>>,
       <<Star, <<":", ":", "1", "/", "1", "2", "8">>, Star>>,
       <<file, Star, Star>> >>

_compare_origin_part_m(allowed, actual) ==
    allowed = Star \/ actual = Star \/ allowed = actual

\* _compare_origin_part
_compare_origin_part(allowed, actual) == allowed = Star \/ allowed = actual

\* port or "*": None and 0 are falsy.  A port is an int, written in decimal.
OrStar(port) == IF port = None \/ port = <<"0">> THEN Star ELSE port

\* unearth.utils.parse_netloc: the host, and the port when one is given
parse_netloc(netloc) ==
    LET colons == {i \in 1..Len(netloc) : netloc[i] = ":"}
        last == CHOOSE i \in colons : \A j \in colons : j <= i
    IN  IF Cardinality(colons) = 1 /\ IsNumber(SubSeq(netloc, last + 1, Len(netloc)))
        THEN <<LowerStr(SubSeq(netloc, 1, last - 1)),
               FromInt(ToInt(SubSeq(netloc, last + 1, Len(netloc))))>>
        ELSE <<LowerStr(netloc), None>>

\* unearth.utils.build_url_from_netloc
build_url_from_netloc(netloc, scheme) == scheme \o <<":", "/", "/">> \o netloc

\* requests.Session.mount: adapters[prefix] = adapter
mount(mounted, prefix, adapter) ==
    [p \in DOMAIN mounted \cup {prefix} |-> IF p = prefix THEN adapter ELSE mounted[p]]

\* The adapters a new PyPISession holds: requests' two, and the file:// one
InitialAdapters ==
    mount(mount(mount(<<>>, https \o <<":", "/", "/">>, "HTTPAdapter"),
                http \o <<":", "/", "/">>, "HTTPAdapter"),
          file \o <<":", "/", "/">>, "LocalFSAdapter")

\* add_trusted_host: the adapters after its loop over ("https", "http")
MountTrusted(mounted, host) ==
    LET port == parse_netloc(host)[2]
        one(m, scheme) ==
            LET url == build_url_from_netloc(host, scheme)
                m1 == mount(m, url \o <<"/">>, "InsecureHTTPAdapter")
            IN  IF port = None THEN mount(m1, url \o <<":">>, "InsecureHTTPAdapter")
                ELSE m1
    IN  one(one(mounted, https), http)

\* iter_secure_origins: the defaults, then the trusted hosts in the order the
\* set yields them
iter_secure_origins(order) ==
    DEFAULT_SECURE_ORIGINS
      \o [i \in 1..Len(order) |-> <<Star, order[i][1], OrStar(order[i][2])>>]

\* scheme.rpartition("+")[2]: what follows the last "+"
StripDriver(scheme) ==
    LET plus == {i \in 1..Len(scheme) : scheme[i] = "+"} IN
    IF plus = {} THEN scheme
    ELSE SubSeq(scheme, (CHOOSE i \in plus : \A j \in plus : j <= i) + 1, Len(scheme))

example_org == <<"e", "x", "a", "m", "p", "l", "e", ".", "o", "r", "g">>

\* The hosts handed to add_trusted_host
TrustedNetlocs ==
    {example_org, <<"e", "x", "a", "m", "p", "l", "e", ".", "o", "r", "g", ":", "8", "0", "8", "0">>, <<"e", "x", "a", "m", "p", "l", "e", ".", "o", "r", "g", ":", "0">>, <<"1", "0", ".", "0", ".", "0", ".", "0", "/", "8">>}

\* The locations asked about: scheme, hostname and port of the parsed URL
Locations ==
    [scheme : {http, https, wss, file, <<"g", "i", "t", "+", "h", "t", "t", "p", "s">>},
     hostname : {None, localhost, example_org, <<"1", "2", "7", ".", "0", ".", "0", ".", "1">>, <<"1", "0", ".", "0", ".", "0", ".", "5">>, <<":", ":", "1">>},
     port : {None, <<"8", "0", "8", "0">>, <<"0">>}]

\* Every text is_secure_origin hands to ipaddress: the hostnames of the
\* locations and the host patterns of the entries
HostTexts ==
    {l.hostname : l \in Locations}
      \cup {DEFAULT_SECURE_ORIGINS[i][2] : i \in 1..Len(DEFAULT_SECURE_ORIGINS)}
      \cup {parse_netloc(h)[1] : h \in TrustedNetlocs}

\* ipaddress.ip_address and ipaddress.ip_network on those texts, computed
\* once: the address or network, None where ValueError is raised
AddressOf == [t \in HostTexts |-> IF IsIPAddress(t) THEN ip_address(t) ELSE None]
NetworkOf == [t \in HostTexts |-> IF IsIPNetwork(t) THEN ip_network(t) ELSE None]

OriginMatches_m(entry, scheme, host, port) ==
    /\ _compare_origin_part(entry[1], scheme)
    /\ _compare_origin_part(entry[2], host)
    /\ _compare_origin_part(entry[3], OrStar(port))

\* is_secure_origin, one turn of its loop: whether the entry matches
OriginMatches(entry, scheme, host, port) ==
    /\ _compare_origin_part(entry[1], scheme)
    /\ IF AddressOf[host] # None /\ NetworkOf[entry[2]] # None
       THEN InNetwork(AddressOf[host], NetworkOf[entry[2]])
       ELSE _compare_origin_part(entry[2], host)
    /\ _compare_origin_part(entry[3], OrStar(port))

\* PyPISession.is_secure_origin: True at the first entry that matches, False
\* (after the warning) when the loop ends
is_secure_origin(location, origins) ==
    LET scheme == StripDriver(location.scheme)
        RECURSIVE loop(_)
        loop(i) ==
            IF i > Len(origins) THEN FALSE
            ELSE IF OriginMatches(origins[i], scheme, location.hostname, location.port)
            THEN TRUE
            ELSE loop(i + 1)
    IN  loop(1)

(***************************************************************************)
(* Evaluator: construction, inputs and the call                            *)
(***************************************************************************)
\* FormatControl(...): __post_init__ raises ValueError when both flags are set
FormatControls ==
    {fc \in [only_binary : BOOLEAN, no_binary : BOOLEAN] :
        ~(fc.only_binary /\ fc.no_binary)}

\* TargetPython(py_ver=...), the other fields left at None
TargetPython(py_ver) ==
    [py_ver |-> py_ver, abis |-> None, impl |-> None, platforms |-> None]

\* Evaluator(...): __post_init__ sets _canonical_name
Evaluator(package_name, target_python, hashes, ignore_compatibility, allow_yanked,
          format_control) ==
    [package_name |-> package_name,
     _canonical_name |-> canonicalize_name(package_name),
     target_python |-> target_python,
     hashes |-> hashes,
     ignore_compatibility |-> ignore_compatibility,
     allow_yanked |-> allow_yanked,
     format_control |-> format_control]

\* Link.is_wheel: the file name ends in .whl
is_wheel(filename) == EndsWith(filename, whl)

\* A Link, by the fields evaluate_link reads
Link(filename, yank_reason, requires_python, egg, hash_name, hash) ==
    [filename |-> filename, is_wheel |-> is_wheel(filename),
     yank_reason |-> yank_reason, requires_python |-> requires_python,
     egg |-> egg, hash_name |-> hash_name, hash |-> hash]

sha256 == <<"s", "h", "a", "2", "5", "6">>
md5 == <<"m", "d", "5">>
abc123 == <<"a", "b", "c", "1", "2", "3">>
def456 == <<"d", "e", "f", "4", "5", "6">>

\* The py_ver values of the targets: None (the running interpreter) or 3.8
PyVers == {None, <<3, 8>>}

\* The cache of a target: empty, or filled by an earlier call
Caches(py_ver) == {None, compute_supported_tags(TargetPython(py_ver))}

Idle == Outcome("idle", None, "", <<>>, None)

\* The hash allowlists: none, one algorithm, two algorithms
HashLists ==
    {<<>>, sha256 :> <<abc123>>, sha256 :> <<abc123>> @@ md5 :> <<def456>>}

EvalFiles ==
    {<<"f", "o", "o", "-", "1", ".", "0", "-", "p", "y", "3", "-", "n", "o", "n", "e", "-", "a", "n", "y", ".", "w", "h", "l">>,
     <<"f", "o", "o", "-", "1", ".", "0", "-", "c", "p", "3", "8", "-", "c", "p", "3", "8", "-", "l", "i", "n", "u", "x", ".", "w", "h", "l">>,
     <<"b", "a", "r", "-", "1", ".", "0", "-", "p", "y", "3", "-", "n", "o", "n", "e", "-", "a", "n", "y", ".", "w", "h", "l">>,
     <<"f", "o", "o", "-", "1", ".", "0", "-", "p", "y", "3", ".", "w", "h", "l">>,
     <<"f", "o", "o", "-", "1", ".", "0", ".", "z", "i", "p">>,
     <<"f", "o", "o", ".", "z", "i", "p">>}

EvalLinks ==
    {Link(f, y, r, None, h[1], h[2]) :
        f \in EvalFiles,
        y \in {None, <<>>, <<"s", "e", "c">>},
        r \in {None, <<>>, <<">", "=", "3", ".", "9">>, <<">", "=", "3", ".", "x">>},
        h \in {<<None, None>>, <<sha256, abc123>>, <<sha256, def456>>, <<md5, abc123>>}}

EvalEvaluators ==
    {Evaluator(<<"F", "o", "o">>, TargetPython(v), hl, ic, ay, fc) :
        v \in PyVers, hl \in HashLists, ic \in BOOLEAN, ay \in BOOLEAN,
        fc \in FormatControls}

\* One call of Evaluator.evaluate_link, on the link the behaviour starts
\* with; what earlier calls left behind is the cache it starts with
EvaluateLink ==
    /\ outcome.kind = "idle"
    /\ outcome' = evaluate_link(evaluator, link, valid_tags)
    /\ valid_tags' = outcome'.valid_tags
    /\ UNCHANGED <<evaluator, link, tagVars, sessionVars, fsVars>>

(***************************************************************************)
(* The other components at rest                                            *)
(***************************************************************************)
\* How many callers share one TargetPython
NumCallers == 2

Callers == 1..NumCallers

TagsIdle ==
    /\ tp_pc = [c \in Callers |-> "idle"]
    /\ tp_ret = [c \in Callers |-> None]
    /\ tp_local = [c \in Callers |-> None]
    /\ get_supported_calls = 0

\* origin: whether is_secure_origin was called, whether its result is of the
\* present table (no host was added since), the location and the result
NoOrigin ==
    [called |-> FALSE, current |-> FALSE,
     location |-> [scheme |-> None, hostname |-> None, port |-> None],
     secure |-> FALSE, warned |-> FALSE]

\* PyPISession(): no trusted host yet
SessionNew ==
    /\ trusted_host_ports = {}
    /\ adapters = InitialAdapters
    /\ origin = NoOrigin

NoResponse == [kind |-> "idle"]

FsIdle ==
    /\ fs = <<>>
    /\ response = NoResponse

(***************************************************************************)
(* evaluate_link on links of every kind                                    *)
(***************************************************************************)
InitEval ==
    /\ evaluator \in EvalEvaluators
    /\ valid_tags \in Caches(evaluator.target_python.py_ver)
    /\ link \in EvalLinks
    /\ outcome = Idle
    /\ TagsIdle /\ SessionNew /\ FsIdle

NextEval == EvaluateLink

SpecEval == InitEval /\ [][NextEval]_vars

\* The five checks, as the link and the evaluator's fields decide them
FormatControlFails ==
    \/ evaluator.format_control.only_binary /\ ~link.is_wheel
    \/ evaluator.format_control.no_binary /\ link.is_wheel

YankFails == link.yank_reason # None /\ ~evaluator.allow_yanked

RequiresPythonFails ==
    \/ _check_requires_python_raises(evaluator, link)
    \/ ~_check_requires_python(evaluator, link)

ResolveFails ==
    IF link.is_wheel THEN ~evaluate_wheel(evaluator, link, valid_tags).ok
    ELSE ~evaluate_sdist(evaluator, link, valid_tags).ok

HashFails == ~_check_hashes(evaluator, link)

CheckOrder == <<"format_control", "yanked", "requires_python", "resolve", "hashes">>

\* C1: evaluate_link applies format control, yank, requires-python,
\* name/version/tag resolution and hash in this order and stops at the first
\* check that does not pass: the checks it evaluated end with the earliest
\* failing one, whatever the later ones would say, and a Package is returned
\* only when all five pass.
C1_FixedOrderFirstFailure ==
    outcome.kind # "idle" =>
        LET fails == <<FormatControlFails, YankFails, RequiresPythonFails,
                       ResolveFails, HashFails>>
            n == Len(outcome.steps)
        IN  /\ n \in 1..5
            /\ outcome.steps = SubSeq(CheckOrder, 1, n)
            /\ \A i \in 1..(n - 1) : ~fails[i]
            /\ outcome.kind = "Package" <=> (n = 5 /\ ~fails[5])
            /\ outcome.kind # "Package" => fails[n]

\* A link that fails the yank check and also the requires-python, resolution
\* and hash checks was rejected by the yank check
C1_Witness ==
    /\ outcome.kind = "None"
    /\ outcome.steps = <<"format_control", "yanked">>
    /\ YankFails /\ RequiresPythonFails /\ ResolveFails /\ HashFails

\* C4: a link without a hash field passes the hash check whatever the
\* allowlist; with an allowlist and a hash field, the link passes if and only
\* if its digest is listed under its own algorithm.
C4_HashCheck ==
    (outcome.kind # "idle" /\ Len(outcome.steps) = 5) =>
        /\ link.hash_name = None => outcome.kind = "Package"
        /\ (DOMAIN evaluator.hashes # {} /\ link.hash_name # None) =>
              (outcome.kind = "Package" <=>
                 /\ link.hash_name \in DOMAIN evaluator.hashes
                 /\ InList(link.hash, evaluator.hashes[link.hash_name]))

\* A link rejected by the hash check although its digest is listed, under
\* another algorithm
C4_Witness ==
    /\ outcome.kind = "None" /\ Len(outcome.steps) = 5
    /\ link.hash_name = md5
    /\ \E a \in DOMAIN evaluator.hashes : InList(link.hash, evaluator.hashes[a])

\* C7: a link whose requires-python is not a parseable specifier, or whose
\* wheel file name is not well-formed, is rejected (None is returned) and no
\* exception is raised, with compatibility checking enabled and the earlier
\* checks passing.
C7_MalformedInputRejected ==
    (/\ outcome.kind # "idle"
     /\ ~evaluator.ignore_compatibility
     /\ ~FormatControlFails /\ ~YankFails
     /\ \/ /\ link.requires_python # None /\ link.requires_python # <<>>
           /\ InvalidSpecifier(link.requires_python)
        \/ /\ ~RequiresPythonFails
           /\ link.is_wheel /\ InvalidWheelFilename(link.filename))
    => outcome.kind = "None"

(***************************************************************************)
(* evaluate_link on wheels                                                 *)
(***************************************************************************)
\* name-version(-build)?-python-abi-platform.whl from its parts
WheelFile(name, version, build, py, abi, plat) ==
    Join(<<name, version>> \o build \o <<py, abi, plat>>, <<"-">>) \o whl

WheelFiles ==
    {WheelFile(n, v, b, py, abi, plat) :
        n \in {<<"f", "o", "o">>, <<"F", "o", "o">>, <<"f", "_", "o">>, <<"f", ".", "o">>, <<"f", "_", "_", "o">>, <<"b", "a", "r">>},
        v \in {<<"1", ".", "0">>, <<"1", ".", "x">>},
        b \in {<<>>, <<<<"1">>>>, <<<<"b", "1">>>>},
        py \in {<<"c", "p", "3", "9">>, <<"p", "y", "3">>, <<"c", "p", "3", "8", ".", "c", "p", "3", "9">>},
        abi \in {<<"n", "o", "n", "e">>, <<"c", "p", "3", "9">>},
        plat \in {<<"a", "n", "y">>, <<"l", "i", "n", "u", "x">>}}
    \cup {<<"f", "o", "o", "-", "1", ".", "0", "-", "p", "y", "3", ".", "w", "h", "l">>, <<"f", "o", "o", "-", "1", ".", "0", "-", "1", "-", "2", "-", "p", "y", "3", "-", "n", "o", "n", "e", "-", "a", "n", "y", ".", "w", "h", "l">>}

WheelLinks ==
    {Link(f, None, r, None, None, None) : f \in WheelFiles, r \in {None, <<">", "=", "3", ".", "9">>}}

WheelEvaluators ==
    {Evaluator(n, TargetPython(v), <<>>, ic, FALSE, [only_binary |-> FALSE, no_binary |-> FALSE]) :
        n \in {<<"F", "o", "o">>, <<"F", ".", "O">>}, v \in PyVers, ic \in BOOLEAN}

InitWheel ==
    /\ evaluator \in WheelEvaluators
    /\ valid_tags \in Caches(evaluator.target_python.py_ver)
    /\ link \in WheelLinks
    /\ outcome = Idle
    /\ TagsIdle /\ SessionNew /\ FsIdle

NextWheel == EvaluateLink

SpecWheel == InitWheel /\ [][NextWheel]_vars

\* The distribution name a wheel's file name starts with
WheelNamePart(filename) == SplitAll(filename, "-")[1]

\* The tags of the target, as a set
TargetTags ==
    {compute_supported_tags(evaluator.target_python)[i] :
        i \in 1..Len(compute_supported_tags(evaluator.target_python))}

\* C2: a wheel that passes the format-control, yank, requires-python and hash
\* checks is admitted if and only if its file name is well-formed, its
\* canonicalized distribution name is the canonicalized requested name, and
\* compatibility checking is disabled or its tag set meets the target's tags
\* (a set intersection, whatever the order of the target's tags).
C2_WheelAdmission ==
    (/\ outcome.kind # "idle" /\ link.is_wheel
     /\ ~FormatControlFails /\ ~YankFails /\ ~RequiresPythonFails /\ ~HashFails)
    => (outcome.kind = "Package" <=>
          /\ ~InvalidWheelFilename(link.filename)
          /\ canonicalize_name(WheelNamePart(link.filename))
               = canonicalize_name(evaluator.package_name)
          /\ \/ evaluator.ignore_compatibility
             \/ parse_wheel_filename(link.filename)[4] \cap TargetTags # {})

\* A wheel admitted by a tag that is not the target's first one, under a
\* requested name spelled differently from the wheel's
C2_Witness ==
    /\ outcome.kind = "Package" /\ link.is_wheel
    /\ ~evaluator.ignore_compatibility
    /\ WheelNamePart(link.filename) # evaluator.package_name
    /\ compute_supported_tags(evaluator.target_python)[1]
         \notin parse_wheel_filename(link.filename)[4]

(***************************************************************************)
(* evaluate_link on the other links: the version from egg_info             *)
(***************************************************************************)
\* The longest file name drawn
MaxEggLen == 4

EggAlphabet == {"f", "o", "F", "-", "_", ".", "1"}

EggStrings == UNION {[1..k -> EggAlphabet] : k \in 0..MaxEggLen}

EggFragments ==
    {<<>>, <<"f", "o", "o", "-", "1", ".", "2", ".", "3">>, <<"f", "o", "o">>, <<"f", "o", "o", "-", "1", ".", "0", "[", "e", "x", "t", "r", "a", "]">>, <<"f", "o", "_", "-", "1">>, <<"f", ".", "o", "-", "1", "[", "x", "]">>,
     <<"F", "o", "-">>, <<"[", "x", "]">>}

EggLinks ==
    {Link(f, None, None, None, None, None) : f \in EggStrings}
    \cup {Link(<<"f", "o", "-", "2", ".", "z", "i", "p">>, None, None, e, None, None) : e \in EggFragments}

EggEvaluators ==
    {Evaluator(n, TargetPython(None), <<>>, FALSE, FALSE,
               [only_binary |-> FALSE, no_binary |-> FALSE]) :
        n \in {<<"F", "o">>, <<"f", ".", "o">>, <<"F", "o", "o">>}}

InitEgg ==
    /\ evaluator \in EggEvaluators
    /\ valid_tags = None
    /\ link \in EggLinks
    /\ outcome = Idle
    /\ TagsIdle /\ SessionNew /\ FsIdle

NextEgg == EvaluateLink

SpecEgg == InitEgg /\ [][NextEgg]_vars

\* The egg fragment without its extras when there is a non-empty one, else
\* the file name without its extension
EggInfo ==
    IF link.egg # None /\ link.egg # <<>>
    THEN LET i == FindFrom(link.egg, "[", 1) IN
         IF i > 1 /\ link.egg[Len(link.egg)] = "]"
         THEN SubSeq(link.egg, 1, i - 1) ELSE link.egg
    ELSE LET dots == {i \in 1..Len(link.filename) : link.filename[i] = "."}
             last == CHOOSE i \in dots : \A j \in dots : j <= i
         IN  IF dots # {} /\ \E k \in 1..(last - 1) : link.filename[k] # "."
             THEN SubSeq(link.filename, 1, last - 1) ELSE link.filename

\* The places of egg_info where a prefix that canonicalizes to the requested
\* name is followed by - or _
Boundaries ==
    {i \in 1..Len(EggInfo) :
        /\ canonicalize_name(SubSeq(EggInfo, 1, i - 1))
             = canonicalize_name(evaluator.package_name)
        /\ EggInfo[i] \in {"-", "_"}}

\* C3: for a link that is no wheel, the version is what follows the separator
\* (- or _) after the shortest prefix of egg_info that canonicalizes to the
\* canonicalized requested name; without such a place the link is rejected.
C3_EggInfoVersion ==
    (/\ outcome.kind # "idle" /\ ~link.is_wheel
     /\ ~FormatControlFails /\ ~YankFails /\ ~RequiresPythonFails /\ ~HashFails)
    => IF Boundaries = {}
       THEN outcome.kind = "None" /\ outcome.log = "Missing version in the filename"
       ELSE LET first == CHOOSE i \in Boundaries : \A j \in Boundaries : i <= j IN
            /\ outcome.kind = "Package"
            /\ outcome.version = SubSeq(EggInfo, first + 1, Len(EggInfo))

\* egg_info foo-1.2.3 with requested name Foo gives version 1.2.3
C3_Witness ==
    /\ outcome.kind = "Package"
    /\ evaluator.package_name = <<"F", "o", "o">>
    /\ link.egg = <<"f", "o", "o", "-", "1", ".", "2", ".", "3">>
    /\ outcome.version = <<"1", ".", "2", ".", "3">>

\* A file name whose separator is an underscore gave its version
C3_WitnessUnderscore ==
    /\ outcome.kind = "Package"
    /\ EggInfo = <<"F", "o", "_", "1">>
    /\ outcome.version = <<"1">>

(***************************************************************************)
(* PyPISession: add_trusted_host and is_secure_origin                      *)
(***************************************************************************)
\* How many trusted hosts a session is given
MaxTrusted == 2

\* The orders in which iterating a set may yield its elements
Orders(set) ==
    {o \in [1..Cardinality(set) -> set] : \A i, j \in DOMAIN o : o[i] = o[j] => i = j}

add_trusted_host_ports_m(trusted, host) == {parse_netloc(host)}

\* add_trusted_host: self._trusted_host_ports.add((hostname, port))
add_trusted_host_ports(trusted, host) == trusted \cup {parse_netloc(host)}

\* PyPISession.add_trusted_host
AddTrustedHost(host) ==
    /\ Cardinality(trusted_host_ports \cup {parse_netloc(host)}) <= MaxTrusted
    /\ trusted_host_ports' = add_trusted_host_ports(trusted_host_ports, host)
    /\ adapters' = MountTrusted(adapters, host)
    /\ origin' = [origin EXCEPT !.current = FALSE]
    /\ UNCHANGED <<evalVars, tagVars, fsVars>>

\* PyPISession.is_secure_origin
IsSecureOrigin(location) ==
    /\ \E order \in Orders(trusted_host_ports) :
          LET secure == is_secure_origin(location, iter_secure_origins(order)) IN
          origin' = [called |-> TRUE, current |-> TRUE, location |-> location, secure |-> secure,
                     warned |-> ~secure]
    /\ UNCHANGED <<trusted_host_ports, adapters, evalVars, tagVars, fsVars>>

InitSession ==
    /\ SessionNew
    /\ evaluator = None /\ valid_tags = None /\ link = None /\ outcome = Idle
    /\ TagsIdle /\ FsIdle

NextSession ==
    \/ \E host \in TrustedNetlocs : AddTrustedHost(host)
    \/ \E location \in Locations : IsSecureOrigin(location)

SpecSession == InitSession /\ [][NextSession]_vars

\* The location's scheme without its +driver prefix
OriginScheme == StripDriver(origin.location.scheme)

\* Secure by the default table: the scheme, localhost, or a loopback address
SecureByDefault ==
    \/ OriginScheme \in {https, wss, file}
    \/ origin.location.hostname \in {localhost, <<"1", "2", "7", ".", "0", ".", "0", ".", "1">>, <<":", ":", "1">>}

\* The trusted entry names the location's host: the same text, or a network
\* that holds the address
EntryHoldsHost(entry) ==
    \/ entry[1] = origin.location.hostname
    \/ /\ IsIPAddress(origin.location.hostname) /\ IsIPNetwork(entry[1])
       /\ InNetwork(ip_address(origin.location.hostname), ip_network(entry[1]))

\* An entry added without a port, or with port 0, is written with port "*"
WildcardPort(entry) == entry[2] = None \/ entry[2] = <<"0">>

\* C5: whatever hosts are trusted, a location with scheme https, wss or file
\* (after its +driver prefix is stripped), with host localhost or with a
\* loopback address is secure; an address inside a trusted network is secure
\* for any scheme; a location that no default and no trusted entry matches is
\* not secure, which is a warning and the result False.
C5_SecureOrigins ==
    origin.current =>
        /\ SecureByDefault => origin.secure
        /\ (/\ origin.location.hostname \in {<<"1", "0", ".", "0", ".", "0", ".", "5">>}
            /\ <<<<"1", "0", ".", "0", ".", "0", ".", "0", "/", "8">>, None>> \in trusted_host_ports) => origin.secure
        /\ (/\ ~SecureByDefault
            /\ \A entry \in trusted_host_ports : ~EntryHoldsHost(entry))
           => ~origin.secure
        /\ origin.warned = ~origin.secure

\* 10.0.0.5 over plain http was found secure by the trusted network 10.0.0.0/8
C5_Witness ==
    /\ origin.current
    /\ origin.location.scheme = http
    /\ origin.location.hostname = <<"1", "0", ".", "0", ".", "0", ".", "5">>
    /\ trusted_host_ports = {<<<<"1", "0", ".", "0", ".", "0", ".", "0", "/", "8">>, None>>}
    /\ origin.secure

\* C6 as claimed: for a trusted entry that names the location's host, the
\* port matches when the ports are equal or either side is a wildcard, a
\* location without a port counting as a wildcard.
C6_EitherSideWildcard ==
    (/\ origin.current
     /\ \E entry \in trusted_host_ports :
           /\ EntryHoldsHost(entry)
           /\ \/ entry[2] = origin.location.port
              \/ WildcardPort(entry)
              \/ origin.location.port = None)
    => origin.secure

\* C6 as the code has it: for a location the default table does not make
\* secure, the location is secure if and only if some trusted entry names its
\* host and that entry's port is a wildcard (the host was added without a
\* port, or with port 0) or equals the location's port.  A location without a
\* port matches only entries with a wildcard port.
C6_EntryWildcardOnly ==
    (origin.current /\ ~SecureByDefault) =>
        (origin.secure <=>
            \E entry \in trusted_host_ports :
                /\ EntryHoldsHost(entry)
                /\ (WildcardPort(entry) \/ entry[2] = origin.location.port))

\* http://example.org/ was found not secure although example.org:8080 is
\* trusted
C6_Witness ==
    /\ origin.current
    /\ origin.location = [scheme |-> http, hostname |-> example_org, port |-> None]
    /\ trusted_host_ports = {<<example_org, <<"8", "0", "8", "0">>>>}
    /\ ~origin.secure /\ origin.warned

\* C9: the trusted hosts are only added to: is_secure_origin changes neither
\* the set nor the adapters, add_trusted_host removes no entry and no mount,
\* the default origins always head the table, a location once reported
\* secure stays secure under every later table, and the result does not
\* depend on the order in which the set yields the hosts.
C9_AppendOnly ==
    /\ [][/\ trusted_host_ports \subseteq trusted_host_ports'
          /\ \A p \in DOMAIN adapters : p \in DOMAIN adapters' /\ adapters'[p] = adapters[p]
          /\ origin'.current =>
                trusted_host_ports' = trusted_host_ports /\ adapters' = adapters]_vars
    /\ [](\A order \in Orders(trusted_host_ports) :
            /\ SubSeq(iter_secure_origins(order), 1, Len(DEFAULT_SECURE_ORIGINS))
                 = DEFAULT_SECURE_ORIGINS
            /\ origin.secure
                 => is_secure_origin(origin.location, iter_secure_origins(order))
            /\ origin.current
                 => origin.secure
                      = is_secure_origin(origin.location, iter_secure_origins(order)))

\* A location reported secure by one trusted host, and a second host added
\* after the report
C9_Witness ==
    /\ origin.called /\ ~origin.current
    /\ origin.secure /\ ~SecureByDefault
    /\ Cardinality(trusted_host_ports) = 2
    /\ \E entry \in trusted_host_ports : ~EntryHoldsHost(entry)

(***************************************************************************)
(* LocalFSAdapter.send                                                     *)
(***************************************************************************)
\* The paths the file: requests name
Paths == {"/srv/a", "/srv/b", "/srv/c"}

\* What is at a path: nothing; something under a directory that may not be
\* searched; a directory; a file that may not be read; a readable file
FileKinds == {"missing", "noaccess", "directory", "unreadable", "file"}

\* os.stat(path): the OSError it raises, "" when it returns
os_stat_raises(kind) ==
    CASE kind = "missing" -> "FileNotFoundError"
      [] kind = "noaccess" -> "PermissionError"
      [] OTHER -> ""

\* open(path, "rb"): the OSError it raises, "" when it returns
open_raises(kind) ==
    CASE kind = "missing" -> "FileNotFoundError"
      [] kind = "noaccess" -> "PermissionError"
      [] kind = "directory" -> "IsADirectoryError"
      [] kind = "unreadable" -> "PermissionError"
      [] OTHER -> ""

\* LocalFSAdapter.send: the Response returned, or the exception that leaves it
send(files, path) ==
    IF os_stat_raises(files[path]) # ""
    THEN [kind |-> "returned", url |-> path, status_code |-> 404,
          reason |-> os_stat_raises(files[path]),
          raw |-> <<os_stat_raises(files[path]), path>>, headers |-> {}]
    ELSE IF open_raises(files[path]) # ""
    THEN [kind |-> "raised", url |-> path, status_code |-> 0,
          reason |-> open_raises(files[path]), raw |-> <<>>, headers |-> {}]
    ELSE [kind |-> "returned", url |-> path, status_code |-> 200,
          reason |-> "", raw |-> <<"file", path>>,
          headers |-> {"Content-Type", "Content-Length", "Last-Modified"}]

\* One request through the adapter
Send(path) ==
    /\ response' = send(fs, path)
    /\ UNCHANGED <<fs, evalVars, tagVars, sessionVars>>

InitFS ==
    /\ fs \in [Paths -> FileKinds]
    /\ response = NoResponse
    /\ evaluator = None /\ valid_tags = None /\ link = None /\ outcome = Idle
    /\ TagsIdle /\ SessionNew

NextFS == \E path \in Paths : Send(path)

SpecFS == InitFS /\ [][NextFS]_vars

\* C8: every failure to read the file (missing, a directory, not openable)
\* gives a returned Response with status 404 whose reason is the error's
\* class name and whose body carries the error; send never raises for it,
\* and status 200 comes only with the file opened.
C8_ReadFailureIs404 ==
    response.kind # "idle" =>
        /\ fs[response.url] # "file" =>
              /\ response.kind = "returned"
              /\ response.status_code = 404
              /\ response.reason = open_raises(fs[response.url])
              /\ response.raw = <<response.reason, response.url>>
        /\ (response.kind = "returned" /\ response.status_code = 200) =>
              fs[response.url] = "file"

(***************************************************************************)
(* TargetPython.supported_tags, called by several callers at once          *)
(***************************************************************************)
\* supported_tags() is entered
Call(c) ==
    /\ tp_pc[c] = "idle"
    /\ tp_pc' = [tp_pc EXCEPT ![c] = "test"]
    /\ UNCHANGED <<tp_ret, tp_local, get_supported_calls, evalVars, sessionVars, fsVars>>

\* if self._valid_tags is None
Test(c) ==
    /\ tp_pc[c] = "test"
    /\ tp_pc' = [tp_pc EXCEPT ![c] = IF valid_tags = None THEN "compute" ELSE "return"]
    /\ UNCHANGED <<tp_ret, tp_local, get_supported_calls, evalVars, sessionVars, fsVars>>

\* get_supported(py_version, self.platforms, self.impl, self.abis)
GetSupported(c) ==
    /\ tp_pc[c] = "compute"
    /\ tp_local' = [tp_local EXCEPT ![c] = compute_supported_tags(evaluator.target_python)]
    /\ get_supported_calls' = get_supported_calls + 1
    /\ tp_pc' = [tp_pc EXCEPT ![c] = "store"]
    /\ UNCHANGED <<tp_ret, evalVars, sessionVars, fsVars>>

\* self._valid_tags = ...
Store(c) ==
    /\ tp_pc[c] = "store"
    /\ valid_tags' = tp_local[c]
    /\ tp_local' = [tp_local EXCEPT ![c] = None]
    /\ tp_pc' = [tp_pc EXCEPT ![c] = "return"]
    /\ UNCHANGED <<tp_ret, get_supported_calls, evaluator, link, outcome, sessionVars,
                   fsVars>>

\* return self._valid_tags
Return(c) ==
    /\ tp_pc[c] = "return"
    /\ tp_ret' = [tp_ret EXCEPT ![c] = valid_tags]
    /\ tp_pc' = [tp_pc EXCEPT ![c] = "idle"]
    /\ UNCHANGED <<tp_local, get_supported_calls, evalVars, sessionVars, fsVars>>

InitTags ==
    /\ evaluator \in {Evaluator(<<"F", "o", "o">>, TargetPython(v), <<>>, FALSE, FALSE,
                                [only_binary |-> FALSE, no_binary |-> FALSE]) :
                        v \in PyVers}
    /\ valid_tags = None /\ link = None /\ outcome = Idle
    /\ TagsIdle /\ SessionNew /\ FsIdle

NextTags ==
    \E c \in Callers : Call(c) \/ Test(c) \/ GetSupported(c) \/ Store(c) \/ Return(c)

SpecTags == InitTags /\ [][NextTags]_vars

\* C10: over any calls of supported_tags() on one instance, also calls that
\* overlap, get_supported runs at most once and every call returns the same
\* tags.
C10_ComputedOnce ==
    /\ get_supported_calls <= 1
    /\ \A c, d \in Callers :
          (tp_ret[c] # None /\ tp_ret[d] # None) => tp_ret[c] = tp_ret[d]

====
